---- MODULE Spec2Model ----
(***************************************************************************)
(* WorkWeek scheduler: the task store (WORKWEEKCODE.py), the desktop front *)
(* end (gui.py) and the terminal front end (tui.py) as state machines.     *)
(*                                                                         *)
(* Python values are tagged records [t |-> type, v |-> payload]; every     *)
(* string is a sequence of natural numbers (its characters), so that       *)
(* lengths, formatting and parsing are computed and not looked up.         *)
(***************************************************************************)
EXTENDS Integers, Sequences, FiniteSets, TLC

VARIABLES
    os_name,     \* "posix" or "nt": decides what os.rename does inside shutil.move
    DATA_FILE,   \* the file at the destination path: [exists, bytes]
    tmp_file,    \* per process: the NamedTemporaryFile of a running save
    backups,     \* the <name>.corrupt.<ts> siblings: set of [ts, bytes]
    clock,       \* wall clock, whole seconds
    pc,          \* per process: position inside save_tasks / the process's life
    tasks,       \* per process: the in-memory collection
    ret,         \* per process: how the last load/save call ended
    wpos,        \* per process: offset of the copy fallback of shutil.move
    hist,        \* history: what was committed, read and saved (no code reads it)
    gui,         \* the desktop front end (WorkWeekGUI)
    tui          \* the terminal front end (WorkWeekTUI)

vars == <<os_name, DATA_FILE, tmp_file, backups, clock, pc, tasks, ret, wpos, hist, gui, tui>>

(***************************************************************************)
(* Python values                                                           *)
(***************************************************************************)
None == [t |-> "none", v |-> 0]
Str(s) == [t |-> "str", v |-> s]
Num(n) == [t |-> "int", v |-> n]
Bool(b) == [t |-> "bool", v |-> b]
Datetime(day, sec, us) == [t |-> "datetime", v |-> [day |-> day, sec |-> sec, us |-> us]]

\* Python truthiness, as used by `if item["when"]` and `if when_str`
Truthy(x) ==
    CASE x.t = "none" -> FALSE
      [] x.t = "str" -> Len(x.v) > 0
      [] x.t = "int" -> x.v # 0
      [] x.t = "bool" -> x.v
      [] OTHER -> TRUE

\* str(n) for a non-negative integer: its decimal digits
RECURSIVE Digits(_)
Digits(n) == IF n < 10 THEN <<n>> ELSE Digits(n \div 10) \o <<n % 10>>

\* datetime.isoformat(): "<date>T<time>", with the microseconds only when non-zero.
\* A text is the sequence <<day, sec>> or <<day, sec, us>>.
\* (variant: d.date().isoformat(), the time of day is not written)
isoformat_date_only(d) == <<d.v.day>>

isoformat(d) ==
    IF d.v.us = 0 THEN <<d.v.day, d.v.sec>> ELSE <<d.v.day, d.v.sec, d.v.us>>

\* Characters from 32 on are spaces, signs and letters; smaller numbers are
\* the numeric fields of a timestamp text.
Space == 32

\* datetime.fromisoformat(): raises on anything that is not a str in ISO form
IsIsoText(x) == x.t = "str" /\ Len(x.v) \in {2, 3} /\ \A i \in 1..Len(x.v) : x.v[i] < Space
fromisoformat(x) ==
    Datetime(x.v[1], x.v[2], IF Len(x.v) = 3 THEN x.v[3] ELSE 0)

(***************************************************************************)
(* The Task model (pydantic, extra = "forbid")                             *)
(***************************************************************************)
TaskFields == {"id", "title", "when", "category", "done", "created_at"}

\* Task(**item): TRUE when pydantic accepts the keyword arguments
TaskAccepts(item, fields) ==
    /\ DOMAIN item \subseteq fields
    /\ "id" \in DOMAIN item /\ item.id.t = "str"
    /\ "title" \in DOMAIN item /\ item.title.t = "str" /\ Len(item.title.v) >= 1
    /\ "when" \in DOMAIN item => item.when.t \in {"none", "datetime"} \/ IsIsoText(item.when)
    /\ "category" \in DOMAIN item => item.category.t \in {"none", "str"}
    /\ "done" \in DOMAIN item => item.done.t = "bool"
    /\ "created_at" \in DOMAIN item => item.created_at.t = "datetime" \/ IsIsoText(item.created_at)
    /\ "recurrence" \in DOMAIN item => item.recurrence.t \in {"none", "str"}

\* the values "daily", "weekdays", "weekly" that gui.py passes as recurrence
Daily == Str(<<4, 1, 9, 12, 25>>)
Weekdays == Str(<<23, 5, 5, 11, 4, 1, 25, 19>>)
Weekly == Str(<<23, 5, 5, 11, 12, 25>>)

\* the validated Task: defaults filled in, ISO texts parsed
FieldDefault(f, now) ==
    CASE f = "done" -> Bool(FALSE)
      [] f = "created_at" -> now
      [] OTHER -> None

Task(item, fields, now) ==
    [f \in fields |->
        IF f \notin DOMAIN item THEN FieldDefault(f, now)
        ELSE IF f \in {"when", "created_at"} /\ item[f].t = "str" THEN fromisoformat(item[f])
        ELSE item[f]]

(***************************************************************************)
(* Serialization: _task_to_serializable, json.dumps                        *)
(***************************************************************************)
\* model_dump() then the datetimes of "when" and "created_at" to ISO text
_task_to_serializable(t) ==
    [k \in DOMAIN t |->
        IF k \in {"when", "created_at"} /\ t[k].t = "datetime"
        THEN Str(isoformat(t[k]))
        ELSE t[k]]

\* The bytes of a file are a sequence of chunks: "[", one chunk per JSON
\* object, "]"; "junk" is decodable text that is no JSON, "bad" is a byte
\* sequence that does not decode.
Open == [k |-> "["]
Close == [k |-> "]"]
Obj(o) == [k |-> "obj", o |-> o]
Junk == [k |-> "junk"]
Bad == [k |-> "bad"]

RECURSIVE MapSeq(_, _)
MapSeq(Op(_), s) == IF s = <<>> THEN <<>> ELSE <<Op(Head(s))>> \o MapSeq(Op, Tail(s))

SerObj(t) == Obj(_task_to_serializable(t))

\* json.dumps([_task_to_serializable(t) for t in tasks], indent=2)
json_dumps(ts) == <<Open>> \o MapSeq(SerObj, ts) \o <<Close>>

NoFile == [exists |-> FALSE, bytes |-> <<>>]
File(bytes) == [exists |-> TRUE, bytes |-> bytes]

(***************************************************************************)
(* load_tasks                                                              *)
(***************************************************************************)
\* datetime.now() / datetime.utcnow() at clock value c (naive, no zone)
DayLen == 2
Now(c) == Datetime(c \div DayLen, c % DayLen, 0)

\* read_text() raises UnicodeDecodeError on bytes that do not decode
Decodes(bytes) == \A i \in 1..Len(bytes) : bytes[i] # Bad

\* json.loads: the text is a JSON array of objects
WellFormed(bytes) ==
    /\ Len(bytes) >= 2
    /\ bytes[1] = Open
    /\ bytes[Len(bytes)] = Close
    /\ \A i \in 2..(Len(bytes) - 1) : bytes[i].k = "obj"

json_loads(bytes) == [i \in 1..(Len(bytes) - 2) |-> bytes[i + 1].o]

\* lines 117-131: the legacy integer id to str, the ISO texts to datetimes
\* (variant: the integer id is left as it is)
NormId_keep_int(item) == item

NormId(item) ==
    IF "id" \in DOMAIN item /\ item.id.t = "int"
    THEN [item EXCEPT !["id"] = Str(Digits(item.id.v))]
    ELSE item

NormWhen(item) ==
    IF "when" \in DOMAIN item /\ Truthy(item.when)
    THEN [item EXCEPT !["when"] = IF IsIsoText(item.when) THEN fromisoformat(item.when) ELSE None]
    ELSE item

NormCreated(item, now) ==
    IF "created_at" \in DOMAIN item /\ Truthy(item.created_at)
    THEN [item EXCEPT !["created_at"] =
            IF IsIsoText(item.created_at) THEN fromisoformat(item.created_at) ELSE now]
    ELSE item

Normalise(item, now) == NormCreated(NormWhen(NormId(item)), now)

\* the loop of lines 116-132 over the parsed array
LoadItems(items, fields, now) ==
    [i \in 1..Len(items) |-> Task(Normalise(items[i], now), fields, now)]

AllAccepted(items, fields, now) ==
    \A i \in 1..Len(items) : TaskAccepts(Normalise(items[i], now), fields)

\* (variant: a record that Task rejects is skipped, the others are returned)
RECURSIVE AcceptedItems(_, _, _)
AcceptedItems(items, fields, now) ==
    IF items = <<>> THEN <<>>
    ELSE (IF AllAccepted(<<Head(items)>>, fields, now) THEN <<Head(items)>> ELSE <<>>)
         \o AcceptedItems(Tail(items), fields, now)

load_tasks_skipping(file, fields, now) ==
    IF ~file.exists THEN [kind |-> "ok", tasks |-> <<>>, exc |-> "none"]
    ELSE IF ~Decodes(file.bytes) THEN [kind |-> "raise", tasks |-> <<>>, exc |-> "UnicodeDecodeError"]
    ELSE IF ~WellFormed(file.bytes) THEN [kind |-> "corrupt", tasks |-> <<>>, exc |-> "JSONDecodeError"]
    ELSE [kind |-> "ok",
          tasks |-> LoadItems(AcceptedItems(json_loads(file.bytes), fields, now), fields, now),
          exc |-> "none"]

\* (variant: without the exists() test, read_text raises on a missing file)
load_tasks_no_exists_test(file, fields, now) ==
    IF ~file.exists THEN [kind |-> "raise", tasks |-> <<>>, exc |-> "FileNotFoundError"]
    ELSE IF ~Decodes(file.bytes) THEN [kind |-> "raise", tasks |-> <<>>, exc |-> "UnicodeDecodeError"]
    ELSE IF ~WellFormed(file.bytes) THEN [kind |-> "corrupt", tasks |-> <<>>, exc |-> "JSONDecodeError"]
    ELSE IF AllAccepted(json_loads(file.bytes), fields, now)
         THEN [kind |-> "ok", tasks |-> LoadItems(json_loads(file.bytes), fields, now), exc |-> "none"]
         ELSE [kind |-> "raise", tasks |-> <<>>, exc |-> "ValidationError"]

\* How load_tasks ends on a file: kind "ok" (a list is returned), "corrupt"
\* (JSONDecodeError: backup, then [] is returned) or "raise" (the exception
\* leaves load_tasks).
load_tasks(file, fields, now) ==
    IF ~file.exists THEN [kind |-> "ok", tasks |-> <<>>, exc |-> "none"]
    ELSE IF ~Decodes(file.bytes) THEN [kind |-> "raise", tasks |-> <<>>, exc |-> "UnicodeDecodeError"]
    ELSE IF ~WellFormed(file.bytes) THEN [kind |-> "corrupt", tasks |-> <<>>, exc |-> "JSONDecodeError"]
    ELSE IF AllAccepted(json_loads(file.bytes), fields, now)
         THEN [kind |-> "ok", tasks |-> LoadItems(json_loads(file.bytes), fields, now), exc |-> "none"]
         ELSE [kind |-> "raise", tasks |-> <<>>, exc |-> "ValidationError"]

\* shutil.copy2(DATA_FILE, backup): the sibling named by the clock's second
WithBackup(bk, ts, bytes) == {b \in bk : b.ts # ts} \cup {[ts |-> ts, bytes |-> bytes]}

(***************************************************************************)
(* The store used by two front-end processes (no lock, no coordination)    *)
(***************************************************************************)
MaxOps == 4        \* calls and mutations of the single process of StoreSpec
SharedOps == 3     \* load, one mutation, save: per process of SharedSpec
MaxClock == 1

Ch(n) == <<n>>     \* a one-character string

\* Tasks the front ends construct (Task(...) accepted them)
TaskA == [id |-> Str(Digits(1)), title |-> Str(Ch(1)), when |-> None, category |-> None,
          done |-> Bool(FALSE), created_at |-> Datetime(0, 1, 5)]
TaskB == [id |-> Str(Digits(12)), title |-> Str(Ch(2)), when |-> Datetime(1, 0, 7),
          category |-> Str(Ch(3)), done |-> Bool(TRUE), created_at |-> Datetime(0, 0, 0)]
NewTasks == {TaskA, TaskB}

\* Objects found in store files: a legacy record (integer id, no "done"), a
\* record with unparsable "when", one without title, one with an empty title
LegacyObj == [id |-> Num(7), title |-> Str(Ch(4)), when |-> Str(<<1, 1>>), created_at |-> Str(<<0, 0, 3>>)]
LenientObj == [id |-> Str(Digits(3)), title |-> Str(Ch(5)), when |-> Str(Ch(9)),
               category |-> None, done |-> Bool(FALSE), created_at |-> Str(<<0, 1>>)]
NoTitleObj == [id |-> Str(Digits(4)), done |-> Bool(FALSE)]
EmptyTitleObj == [id |-> Str(Digits(5)), title |-> Str(<<>>)]
\* a legacy record with two digits, a record whose timestamps are no ISO
\* text (a number, a word), one whose "when" is the empty text, and one that
\* carries a "recurrence"
Legacy10Obj == [id |-> Num(10), title |-> Str(Ch(6)), done |-> Bool(TRUE)]
StaleObj == [id |-> Str(Digits(6)), title |-> Str(Ch(6)), when |-> Num(5),
             category |-> Str(Ch(3)), done |-> Bool(TRUE), created_at |-> Str(Ch(9))]
BlankWhenObj == [id |-> Str(Digits(8)), title |-> Str(Ch(6)), when |-> Str(<<>>)]
RecurringObj == [id |-> Str(Digits(9)), title |-> Str(Ch(6)), when |-> Str(<<1, 1>>),
                 recurrence |-> Daily]

\* What may lie at the destination path when the processes start
InitialFiles ==
    { NoFile,
      File(<<Open, Close>>),
      File(<<Open, Obj(LegacyObj), Close>>),
      File(<<Open, Obj(LegacyObj), Obj(LenientObj), Close>>),
      File(<<Open, Obj(LegacyObj), Obj(NoTitleObj), Close>>),
      File(<<Open, Obj(EmptyTitleObj), Obj(LegacyObj), Close>>),
      File(<<Open, Obj(Legacy10Obj), Obj(StaleObj), Close>>),
      File(<<Open, Obj(LegacyObj), Obj(BlankWhenObj), Close>>),
      File(<<Open, Obj(RecurringObj), Close>>),
      File(<<>>),
      File(<<Open, Obj(LegacyObj)>>),
      File(<<Junk>>),
      File(<<Open, Bad, Close>>) }

NoSave == <<[k |-> "nosave"]>>

StoreStart(procs, files, budget) ==
    /\ os_name \in {"posix", "nt"}
    /\ DATA_FILE \in files
    /\ tmp_file = [p \in procs |-> NoFile]
    /\ backups = {}
    /\ clock = 0
    /\ pc = [p \in procs |-> "idle"]
    /\ tasks = [p \in procs |-> <<>>]
    /\ ret = [p \in procs |-> "none"]
    /\ wpos = [p \in procs |-> 0]
    /\ hist = [initial |-> DATA_FILE,
               committed |-> {DATA_FILE},
               budget |-> budget,
               ops |-> [p \in procs |-> 0],
               lastLoad |-> [p \in procs |-> [kind |-> "never"]],
               fault |-> [p \in procs |-> FALSE],
               overwritten |-> [p \in procs |-> NoFile],
               saveFault |-> [p \in procs |-> [kind |-> "never"]],
               saved |-> [p \in procs |-> NoSave],
               savedOnce |-> [p \in procs |-> FALSE],
               moved |-> NoSave]
    /\ gui = <<>>
    /\ tui = <<>>

\* one front-end process, any file at the destination
StoreInit == StoreStart({1}, InitialFiles, MaxOps)

\* two front-end processes pointed at the same path
SharedFiles == {NoFile, File(<<Open, Obj(LegacyObj), Close>>)}
SharedInit == StoreStart({1, 2}, SharedFiles, SharedOps)

FrontEndsIdle == UNCHANGED <<gui, tui>>

Tick ==
    /\ clock < MaxClock
    /\ clock' = clock + 1
    /\ UNCHANGED <<os_name, DATA_FILE, tmp_file, backups, pc, tasks, ret, wpos, hist>>
    /\ FrontEndsIdle

CanStart(p) == pc[p] = "idle" /\ hist.ops[p] < hist.budget

\* load_tasks() called by process p (on_mount, load_and_display_tasks, add, view)
Load(p) ==
    /\ CanStart(p)
    /\ LET r == load_tasks(DATA_FILE, TaskFields, Now(clock)) IN
        /\ ret' = [ret EXCEPT ![p] = IF r.kind = "raise" THEN r.exc ELSE "returned"]
        /\ tasks' = [tasks EXCEPT ![p] = IF r.kind = "raise" THEN @ ELSE r.tasks]
        /\ backups' = IF r.kind = "corrupt" THEN WithBackup(backups, clock, DATA_FILE.bytes) ELSE backups
        /\ hist' = [hist EXCEPT !.ops[p] = @ + 1, !.fault[p] = FALSE,
                                !.lastLoad[p] = [kind |-> r.kind, exc |-> r.exc, file |-> DATA_FILE,
                                                 at |-> clock,
                                                 tasksBefore |-> tasks[p], tasksAfter |-> tasks'[p],
                                                 backupsBefore |-> backups, backupsAfter |-> backups',
                                                 fileAfter |-> DATA_FILE]]
    /\ UNCHANGED <<os_name, DATA_FILE, tmp_file, clock, pc, wpos>>
    /\ FrontEndsIdle

\* the front end appends a freshly constructed task to its collection
AppendTask(p, t) ==
    /\ CanStart(p)
    /\ \A i \in 1..Len(tasks[p]) : tasks[p][i].id # t.id
    /\ tasks' = [tasks EXCEPT ![p] = Append(@, t)]
    /\ hist' = [hist EXCEPT !.ops[p] = @ + 1]
    /\ UNCHANGED <<os_name, DATA_FILE, tmp_file, backups, clock, pc, ret, wpos>>
    /\ FrontEndsIdle

\* t.done = not t.done on the i-th task
Toggle(p, i) ==
    /\ CanStart(p)
    /\ i \in 1..Len(tasks[p])
    /\ tasks' = [tasks EXCEPT ![p][i].done = Bool(~@.v)]
    /\ hist' = [hist EXCEPT !.ops[p] = @ + 1]
    /\ UNCHANGED <<os_name, DATA_FILE, tmp_file, backups, clock, pc, ret, wpos>>
    /\ FrontEndsIdle

\* self.tasks = [x for x in self.tasks if x.id != t.id]
RemoveId(ts, id) == SelectSeq(ts, LAMBDA x : x.id # id)

Remove(p, i) ==
    /\ CanStart(p)
    /\ i \in 1..Len(tasks[p])
    /\ tasks' = [tasks EXCEPT ![p] = RemoveId(@, tasks[p][i].id)]
    /\ hist' = [hist EXCEPT !.ops[p] = @ + 1]
    /\ UNCHANGED <<os_name, DATA_FILE, tmp_file, backups, clock, pc, ret, wpos>>
    /\ FrontEndsIdle

\* Any write of another process to the destination ends "no intervening write"
Touched(p) == [q \in DOMAIN pc |-> IF q = p THEN hist.saved[q] ELSE NoSave]

\* save_tasks, lines 91-95: mkdir, serialize, create the temporary file
SaveBegin(p) ==
    /\ CanStart(p)
    /\ pc' = [pc EXCEPT ![p] = "write"]
    /\ tmp_file' = [tmp_file EXCEPT ![p] = File(<<>>)]
    /\ hist' = [hist EXCEPT !.ops[p] = @ + 1, !.saved[p] = NoSave, !.fault[p] = FALSE]
    /\ UNCHANGED <<os_name, DATA_FILE, backups, clock, tasks, ret, wpos>>
    /\ FrontEndsIdle

\* lines 96-97: tf.write(json.dumps(data)) and the close at the end of `with`
SaveWrite(p) ==
    /\ pc[p] = "write"
    /\ tmp_file' = [tmp_file EXCEPT ![p] = File(json_dumps(tasks[p]))]
    /\ pc' = [pc EXCEPT ![p] = "move"]
    /\ UNCHANGED <<os_name, DATA_FILE, backups, clock, tasks, ret, wpos, hist>>
    /\ FrontEndsIdle

\* os.rename inside shutil.move replaces the destination, except on nt where
\* it raises FileExistsError when the destination exists
RenameReplaces == os_name = "posix" \/ ~DATA_FILE.exists

\* line 100, shutil.move: os.rename succeeded
MoveRename(p) ==
    /\ pc[p] = "move"
    /\ RenameReplaces
    /\ DATA_FILE' = tmp_file[p]
    /\ tmp_file' = [tmp_file EXCEPT ![p] = NoFile]
    /\ pc' = [pc EXCEPT ![p] = "idle"]
    /\ ret' = [ret EXCEPT ![p] = "returned"]
    /\ hist' = [hist EXCEPT !.committed = @ \cup {tmp_file[p]},
                            !.saved = [Touched(p) EXCEPT ![p] = tasks[p]],
                            !.savedOnce[p] = TRUE,
                            !.moved = tasks[p]]
    /\ UNCHANGED <<os_name, backups, clock, tasks, wpos>>
    /\ FrontEndsIdle

\* line 100, shutil.move: os.rename raised OSError, so copy2 opens the
\* destination for writing, which truncates it
MoveCopyOpen(p) ==
    /\ pc[p] = "move"
    /\ ~RenameReplaces
    /\ DATA_FILE' = File(<<>>)
    /\ wpos' = [wpos EXCEPT ![p] = 0]
    /\ pc' = [pc EXCEPT ![p] = "copy"]
    /\ hist' = [hist EXCEPT !.committed = @ \cup {tmp_file[p]}, !.saved = Touched(p), !.moved = tasks[p],
                            !.overwritten[p] = DATA_FILE]
    /\ UNCHANGED <<os_name, tmp_file, backups, clock, tasks, ret>>
    /\ FrontEndsIdle

\* a write of one chunk at the writer's own offset
WriteAt(bytes, pos, c) ==
    IF pos < Len(bytes) THEN [bytes EXCEPT ![pos + 1] = c]
    ELSE bytes \o [i \in 1..(pos - Len(bytes)) |-> Junk] \o <<c>>

MoveCopyChunk(p) ==
    /\ pc[p] = "copy"
    /\ wpos[p] < Len(tmp_file[p].bytes)
    /\ DATA_FILE' = File(WriteAt(DATA_FILE.bytes, wpos[p], tmp_file[p].bytes[wpos[p] + 1]))
    /\ wpos' = [wpos EXCEPT ![p] = @ + 1]
    /\ hist' = [hist EXCEPT !.saved = Touched(p)]
    /\ UNCHANGED <<os_name, tmp_file, backups, clock, pc, tasks, ret>>
    /\ FrontEndsIdle

\* the copy is complete: os.unlink(src), save_tasks returns
MoveCopyEnd(p) ==
    /\ pc[p] = "copy"
    /\ wpos[p] = Len(tmp_file[p].bytes)
    /\ tmp_file' = [tmp_file EXCEPT ![p] = NoFile]
    /\ pc' = [pc EXCEPT ![p] = "idle"]
    /\ ret' = [ret EXCEPT ![p] = "returned"]
    /\ hist' = [hist EXCEPT !.saved[p] = tasks[p], !.savedOnce[p] = TRUE, !.overwritten[p] = NoFile]
    /\ UNCHANGED <<os_name, DATA_FILE, backups, clock, tasks, wpos>>
    /\ FrontEndsIdle

\* What leaves load_tasks when `exc` is raised inside its try block: the
\* JSONDecodeError handler returns [], the `except Exception` handler prints
\* and raises again.
\* (variant: the last handler returns [] as well)
LoadHandler_swallow(exc) == "returned"

LoadHandler(exc) == IF exc = "JSONDecodeError" THEN "returned" ELSE exc

\* load_tasks with a filesystem error: read_text() fails on the existing file
\* (OSError inside the try block), or shutil.copy2 fails while the handler of
\* JSONDecodeError makes the backup (raised inside the handler, it leaves
\* load_tasks)
LoadFault(p) ==
    /\ CanStart(p)
    /\ DATA_FILE.exists
    /\ \E at \in {"read", "backup"} :
        /\ at = "backup" => load_tasks(DATA_FILE, TaskFields, Now(clock)).kind = "corrupt"
        /\ ret' = [ret EXCEPT ![p] = IF at = "read" THEN LoadHandler("OSError") ELSE "OSError"]
    /\ tasks' = [tasks EXCEPT ![p] = IF ret'[p] = "returned" THEN <<>> ELSE @]
    /\ hist' = [hist EXCEPT !.ops[p] = @ + 1, !.fault[p] = TRUE]
    /\ UNCHANGED <<os_name, DATA_FILE, tmp_file, backups, clock, pc, wpos>>
    /\ FrontEndsIdle

\* save_tasks with a filesystem error: mkdir or NamedTemporaryFile fails
\* (from "idle"), tf.write fails, os.rename and then the copy of shutil.move
\* fail, or a write of the copy fails. save_tasks has no handler: the OSError
\* leaves it, the temporary file and a half-copied destination stay behind.
SaveFault(p) ==
    /\ \/ CanStart(p)
       \/ pc[p] \in {"write", "move", "copy"}
    /\ pc' = [pc EXCEPT ![p] = "idle"]
    /\ ret' = [ret EXCEPT ![p] = "OSError"]
    /\ UNCHANGED <<os_name, DATA_FILE, tmp_file, backups, clock, tasks, wpos>>
    /\ hist' = [hist EXCEPT !.ops[p] = IF pc[p] = "idle" THEN @ + 1 ELSE @,
                            !.saved[p] = NoSave, !.fault[p] = TRUE,
                            !.saveFault[p] =
                                [kind |-> "fault", step |-> pc[p],
                                 previous |-> IF pc[p] = "copy" THEN hist.overwritten[p] ELSE DATA_FILE,
                                 file |-> DATA_FILE', tasksBefore |-> tasks[p], tasksAfter |-> tasks'[p]]]
    /\ FrontEndsIdle

\* the process is killed in the middle of save_tasks
Kill(p) ==
    /\ pc[p] \in {"write", "move", "copy"}
    /\ pc' = [pc EXCEPT ![p] = "dead"]
    /\ UNCHANGED <<os_name, DATA_FILE, tmp_file, backups, clock, tasks, ret, wpos, hist>>
    /\ FrontEndsIdle

StoreNext ==
    \/ Tick
    \/ \E p \in DOMAIN pc : Load(p)
    \/ \E p \in DOMAIN pc, t \in NewTasks : AppendTask(p, t)
    \/ \E p \in DOMAIN pc, i \in 1..MaxOps : Toggle(p, i)
    \/ \E p \in DOMAIN pc, i \in 1..MaxOps : Remove(p, i)
    \/ \E p \in DOMAIN pc : SaveBegin(p)
    \/ \E p \in DOMAIN pc : SaveWrite(p)
    \/ \E p \in DOMAIN pc : MoveRename(p)
    \/ \E p \in DOMAIN pc : MoveCopyOpen(p)
    \/ \E p \in DOMAIN pc : MoveCopyChunk(p)
    \/ \E p \in DOMAIN pc : MoveCopyEnd(p)
    \/ \E p \in DOMAIN pc : Kill(p)

StoreSpec == StoreInit /\ [][StoreNext]_vars

\* one front-end process on a filesystem whose operations may fail
FaultOps == 3
FaultFiles == {NoFile, File(<<Open, Obj(LegacyObj), Close>>), File(<<Open, Obj(LegacyObj)>>)}
FaultInit == StoreStart({1}, FaultFiles, FaultOps)

FaultNext ==
    \/ StoreNext
    \/ \E p \in DOMAIN pc : LoadFault(p)
    \/ \E p \in DOMAIN pc : SaveFault(p)

FaultSpec == FaultInit /\ [][FaultNext]_vars

SharedNext ==
    \/ \E p \in DOMAIN pc : Load(p)
    \/ \E p \in DOMAIN pc, t \in NewTasks : AppendTask(p, t)
    \/ \E p \in DOMAIN pc, i \in 1..SharedOps : Toggle(p, i)
    \/ \E p \in DOMAIN pc, i \in 1..SharedOps : Remove(p, i)
    \/ \E p \in DOMAIN pc : SaveBegin(p)
    \/ \E p \in DOMAIN pc : SaveWrite(p)
    \/ \E p \in DOMAIN pc : MoveRename(p)
    \/ \E p \in DOMAIN pc : MoveCopyOpen(p)
    \/ \E p \in DOMAIN pc : MoveCopyChunk(p)
    \/ \E p \in DOMAIN pc : MoveCopyEnd(p)

SharedSpec == SharedInit /\ [][SharedNext]_vars

(***************************************************************************)
(* Claims about the store                                                  *)
(***************************************************************************)
LoadNow == load_tasks(DATA_FILE, TaskFields, Now(clock))

\* C1: save(T) followed by load(), with no write in between, returns the
\* tasks of T in the same order, every field equal (timestamps exactly, hence
\* to the second).
C1_RoundTrip ==
    \A p \in DOMAIN pc :
        hist.saved[p] # NoSave => LoadNow.kind = "ok" /\ LoadNow.tasks = hist.saved[p]

HasMicroseconds(t) == t.t = "datetime" /\ t.v.us # 0

C1_Witness ==
    \E p \in DOMAIN pc :
        /\ hist.saved[p] # NoSave
        /\ Len(hist.saved[p]) >= 2
        /\ \E i \in 1..Len(hist.saved[p]) : HasMicroseconds(hist.saved[p][i].when)
        /\ \E i \in 1..Len(hist.saved[p]) : hist.saved[p][i].when = None

\* C2: whatever step a save has reached, and also when it is killed there,
\* the destination holds the complete content it had before or the complete
\* content of a save.
C2_NeverPartial == DATA_FILE \in hist.committed

\* C3: a load of an existing file that is no valid structured data returns
\* the empty collection without raising and leaves a backup with the bytes of
\* the unreadable file.
Unreadable(file) == file.exists /\ (~Decodes(file.bytes) \/ ~WellFormed(file.bytes))

C3_CorruptRecovered ==
    \A p \in DOMAIN pc :
        LET l == hist.lastLoad[p] IN
        (l.kind # "never" /\ Unreadable(l.file)) =>
            /\ l.kind # "raise"
            /\ l.tasksAfter = <<>>
            /\ \E b \in l.backupsAfter : b.bytes = l.file.bytes

\* C4: a load of a parseable file with a record that violates the Task shape
\* raises: nothing is returned (the caller's collection is what it was), no
\* backup appears, the file is as it was.
HasBadRecord(file) ==
    /\ file.exists /\ Decodes(file.bytes) /\ WellFormed(file.bytes)
    /\ ~AllAccepted(json_loads(file.bytes), TaskFields, Now(0))

C4_BadRecordAborts ==
    \A p \in DOMAIN pc :
        LET l == hist.lastLoad[p] IN
        (l.kind # "never" /\ HasBadRecord(l.file)) =>
            /\ l.kind = "raise" /\ l.exc = "ValidationError"
            /\ l.tasksAfter = l.tasksBefore
            /\ l.backupsAfter = l.backupsBefore
            /\ l.fileAfter = l.file

C4_Witness ==
    \E p \in DOMAIN pc :
        LET l == hist.lastLoad[p] IN
        /\ l.kind # "never" /\ HasBadRecord(l.file)
        /\ Len(l.file.bytes) = 4
        /\ l.tasksBefore # <<>>

\* C6: once both processes have loaded and saved, the file holds exactly the
\* collection of the save that replaced the destination last, and both saves
\* returned normally.
C6_LastSaveWins ==
    (\A p \in DOMAIN pc :
        pc[p] = "idle" /\ hist.lastLoad[p].kind = "ok" /\ hist.savedOnce[p]) =>
        /\ DATA_FILE = File(json_dumps(hist.moved))
        /\ \A p \in DOMAIN pc : ret[p] = "returned"

\* the records of a file that decodes and parses
Readable(file) == file.exists /\ Decodes(file.bytes) /\ WellFormed(file.bytes)
Records(file) == json_loads(file.bytes)

\* C14: a record stored with the integer id n is returned by load with the
\* decimal string of n as id (the load succeeds when the records are valid
\* once the id is text), the load leaves the bytes of the file alone, and
\* after the next save every id in the file is a string.
IdAsText(item) ==
    IF "id" \in DOMAIN item /\ item.id.t = "int"
    THEN [item EXCEPT !["id"] = Str(Digits(item.id.v))] ELSE item

HasIntId(file) == \E i \in 1..Len(Records(file)) : IdAsText(Records(file)[i]) # Records(file)[i]

ValidWithTextIds(file, now) ==
    \A i \in 1..Len(Records(file)) :
        TaskAccepts(NormCreated(NormWhen(IdAsText(Records(file)[i])), now), TaskFields)

C14_LegacyIdMigrated ==
    \A p \in DOMAIN pc :
        LET l == hist.lastLoad[p] IN
        /\ (l.kind # "never" /\ Readable(l.file) /\ HasIntId(l.file)
                /\ ValidWithTextIds(l.file, Now(l.at))) =>
              /\ l.kind = "ok"
              /\ Len(l.tasksAfter) = Len(Records(l.file))
              /\ \A i \in 1..Len(Records(l.file)) :
                    l.tasksAfter[i].id = IdAsText(Records(l.file)[i]).id
              /\ l.fileAfter = l.file
        /\ hist.saved[p] # NoSave =>
              \A i \in 1..Len(DATA_FILE.bytes) :
                  DATA_FILE.bytes[i].k = "obj" => DATA_FILE.bytes[i].o.id.t = "str"

C14_Witness ==
    \E p \in DOMAIN pc :
        LET l == hist.lastLoad[p] IN
        /\ l.kind = "ok"
        /\ \E i \in 1..Len(Records(l.file)) : Records(l.file)[i].id = Num(10)
        /\ hist.saved[p] # NoSave
        /\ \E i \in 1..Len(DATA_FILE.bytes) :
              DATA_FILE.bytes[i].k = "obj" /\ DATA_FILE.bytes[i].o.id = Str(<<1, 0>>)

\* C15: a record whose "when" cannot be parsed as a timestamp loads with
\* "when" absent, one whose "created_at" cannot be parsed loads with the
\* time of the load; the record keeps its other fields and the load succeeds.
Unparsable(x) == x.t # "datetime" /\ ~IsIsoText(x)

AsClaimedLenient(item, now) ==
    [k \in DOMAIN item |->
        IF k = "when" /\ item[k] # None /\ Unparsable(item[k]) THEN None
        ELSE IF k = "created_at" /\ Unparsable(item[k]) THEN now
        ELSE item[k]]

HasUnparsable(file) ==
    \E i \in 1..Len(Records(file)) :
        AsClaimedLenient(Records(file)[i], Now(0)) # Records(file)[i]

C15_LenientTimestamps ==
    \A p \in DOMAIN pc :
        LET l == hist.lastLoad[p] IN
        (l.kind # "never" /\ Readable(l.file) /\ HasUnparsable(l.file)
            /\ \A i \in 1..Len(Records(l.file)) :
                  TaskAccepts(NormId(AsClaimedLenient(Records(l.file)[i], Now(l.at))), TaskFields)) =>
            /\ l.kind = "ok"
            /\ l.tasksAfter =
                  [i \in 1..Len(Records(l.file)) |->
                      Task(NormId(AsClaimedLenient(Records(l.file)[i], Now(l.at))),
                           TaskFields, Now(l.at))]

HasRecurrence(file) == \E i \in 1..Len(Records(file)) : "recurrence" \in DOMAIN Records(file)[i]

C18_RecurrenceAccepted ==
    \A p \in DOMAIN pc :
        LET l == hist.lastLoad[p] IN
        (l.kind # "never" /\ Readable(l.file) /\ HasRecurrence(l.file)
            /\ AllAccepted(Records(l.file), TaskFields \cup {"recurrence"}, Now(l.at))) =>
            /\ l.kind = "ok"
            /\ \A i \in 1..Len(Records(l.file)) :
                  "recurrence" \in DOMAIN Records(l.file)[i] =>
                      /\ "recurrence" \in DOMAIN l.tasksAfter[i]
                      /\ l.tasksAfter[i].recurrence = Records(l.file)[i].recurrence

\* C27: a load while the store file does not exist returns the empty
\* collection without raising, creates no file and no backup; a save that
\* follows creates the file, holding the collection saved.
C27_AbsentFileLoads ==
    \A p \in DOMAIN pc :
        LET l == hist.lastLoad[p] IN
        (l.kind # "never" /\ ~l.file.exists) =>
            /\ l.kind = "ok" /\ l.exc = "none"
            /\ l.tasksAfter = <<>>
            /\ ~l.fileAfter.exists
            /\ l.backupsAfter = l.backupsBefore
            /\ hist.saved[p] # NoSave =>
                  (DATA_FILE.exists /\ DATA_FILE.bytes = json_dumps(hist.saved[p]))

C27_Witness ==
    \E p \in DOMAIN pc :
        /\ hist.lastLoad[p].kind = "ok" /\ ~hist.lastLoad[p].file.exists
        /\ hist.saved[p] # NoSave /\ Len(hist.saved[p]) >= 1
        /\ DATA_FILE.exists

\* C30: when save_tasks has failed, whatever the step, the destination holds
\* the complete content it had before the save and the collection in memory
\* is the one that was passed.
C30_FailedSaveKeepsFile ==
    \A p \in DOMAIN pc :
        LET f == hist.saveFault[p] IN
        f.kind = "fault" =>
            /\ f.file = f.previous
            /\ f.tasksAfter = f.tasksBefore

(***************************************************************************)
(* The desktop front end (gui.py)                                          *)
(***************************************************************************)
\* The Task the desktop front end constructs has a "recurrence" field, and
\* it expands recurring tasks with _occurrences_between; both come from the
\* `workweek` module it imports and are modelled from the specification.
GuiTaskFields == TaskFields \cup {"recurrence"}

WindowDays == 14
SaveDelayMs == 800
TickMs == 400          \* the step in which the model lets time pass
MaxGuiOps == 3         \* user events (toggle, edit, delete, new task) per run
MaxGuiClock == 2

DayOf(c) == c \div DayLen
Weekday(day) == day % 7      \* 0 = Monday ... 6 = Sunday

\* does a recurring task occur on this calendar day
\* (variant: Saturday counts as a weekday)
OccursOn_with_saturday(t, day) ==
    CASE t.recurrence = Daily -> TRUE
      [] t.recurrence = Weekdays -> Weekday(day) < 6
      [] t.recurrence = Weekly -> Weekday(day) = Weekday(t.when.v.day)
      [] OTHER -> FALSE

OccursOn(t, day) ==
    CASE t.recurrence = Daily -> TRUE
      [] t.recurrence = Weekdays -> Weekday(day) < 5
      [] t.recurrence = Weekly -> Weekday(day) = Weekday(t.when.v.day)
      [] OTHER -> FALSE

\* the occurrences of the i-th task on the days first..last, in day order:
\* the task itself when it does not recur, a copy per day when it does
RECURSIVE OccurrencesOf(_, _, _, _)
OccurrencesOf(t, i, first, last) ==
    IF t.when = None \/ first > last THEN <<>>
    ELSE IF ~Truthy(t.recurrence)
         THEN IF first <= t.when.v.day /\ t.when.v.day <= last
              THEN <<[task |-> t, ref |-> i]>> ELSE <<>>
    ELSE (IF OccursOn(t, first)
          THEN <<[task |-> [t EXCEPT !.when = Datetime(first, t.when.v.sec, t.when.v.us)], ref |-> 0]>>
          ELSE <<>>) \o OccurrencesOf(t, i, first + 1, last)

\* lexicographic order of two strings
RECURSIVE StrLess(_, _)
StrLess(a, b) ==
    IF b = <<>> THEN FALSE
    ELSE IF a = <<>> THEN TRUE
    ELSE IF Head(a) # Head(b) THEN Head(a) < Head(b)
    ELSE StrLess(Tail(a), Tail(b))

\* chronological, ties by task id
OccBefore(x, y) ==
    LET a == x.task.when.v
        b == y.task.when.v IN
    IF a.day # b.day THEN a.day < b.day
    ELSE IF a.sec # b.sec THEN a.sec < b.sec
    ELSE IF a.us # b.us THEN a.us < b.us
    ELSE StrLess(x.task.id.v, y.task.id.v)

RECURSIVE InsertOcc(_, _)
InsertOcc(sorted, x) ==
    IF sorted = <<>> THEN <<x>>
    ELSE IF ~OccBefore(Head(sorted), x) THEN <<x>> \o sorted
    ELSE <<Head(sorted)>> \o InsertOcc(Tail(sorted), x)

RECURSIVE SortOcc(_)
SortOcc(s) == IF s = <<>> THEN <<>> ELSE InsertOcc(SortOcc(Tail(s)), Head(s))

RECURSIVE AllOccurrences(_, _, _, _)
AllOccurrences(ts, i, first, last) ==
    IF i > Len(ts) THEN <<>>
    ELSE OccurrencesOf(ts[i], i, first, last) \o AllOccurrences(ts, i + 1, first, last)

\* dt + timedelta(days=n)
PlusDays(dt, n) == Datetime(dt.v.day + n, dt.v.sec, dt.v.us)

\* a <= b for two datetimes
DtLeq(a, b) ==
    IF a.v.day # b.v.day THEN a.v.day < b.v.day
    ELSE IF a.v.sec # b.v.sec THEN a.v.sec < b.v.sec
    ELSE a.v.us <= b.v.us

\* (variant: the window is compared as two moments, start <= when <= end)
_occurrences_between_by_moment(ts, start, end) ==
    LET all == SortOcc(AllOccurrences(ts, 1, start.v.day, end.v.day)) IN
    SelectSeq(all, LAMBDA x : DtLeq(start, x.task.when) /\ DtLeq(x.task.when, end))

\* the callers pass datetimes; the window is the calendar days start.date()
\* .. end.date(), both included
_occurrences_between(ts, start, end) ==
    SortOcc(AllOccurrences(ts, 1, start.v.day, end.v.day))

\* The widgets of the board after load_and_display_tasks, in the order in
\* which _perform_save walks them: the unscheduled column (tasks without
\* `when` and without recurrence, in collection order), then the 14 day
\* columns, each by hour row; an occurrence list that is sorted by time is
\* walked in its own order.
RECURSIVE Unscheduled(_, _)
Unscheduled(ts, i) ==
    IF i > Len(ts) THEN <<>>
    ELSE (IF ts[i].when = None /\ ~Truthy(ts[i].recurrence)
          THEN <<[task |-> ts[i], ref |-> i]>> ELSE <<>>) \o Unscheduled(ts, i + 1)

\* (variant: end_dt = today + timedelta(days=14), one day past the columns)
BoardOf_one_more_day(ts, today) ==
    Unscheduled(ts, 1) \o _occurrences_between(ts, today, PlusDays(today, WindowDays))

BoardOf(ts, today) ==
    Unscheduled(ts, 1) \o _occurrences_between(ts, today, PlusDays(today, WindowDays - 1))

\* load_and_display_tasks: self.tasks = load_tasks(), the board rebuilt
load_and_display_tasks(g, file, c) ==
    LET loaded == load_tasks(file, GuiTaskFields, Now(c)).tasks IN
    [g EXCEPT !.tasks = loaded, !.widgets = BoardOf(loaded, Now(c))]

\* on_task_changed: stop the timer when active, start it again for 800 ms
\* (variant: a running timer is left to run, only an idle one is started)
on_task_changed_no_restart(g) ==
    IF g.timer >= 0 THEN g ELSE [g EXCEPT !.timer = SaveDelayMs]

on_task_changed(g) == [g EXCEPT !.timer = SaveDelayMs]

WidgetTasks(ws) == [i \in 1..Len(ws) |-> ws[i].task]

\* _perform_save: self.tasks = the tasks of all widgets of the board
_perform_save(g) ==
    [g EXCEPT !.tasks = WidgetTasks(g.widgets),
              !.widgets = [i \in 1..Len(g.widgets) |-> [task |-> g.widgets[i].task, ref |-> i]],
              !.timer = -1]

\* save_tasks as one step of the single desktop process
Saved(ts) == File(json_dumps(ts))

\* Collections found in the store when the desktop front end starts
GuiTask(id, title, when, rec) ==
    [id |-> Str(Digits(id)), title |-> Str(Ch(title)), when |-> when, category |-> None,
     done |-> Bool(FALSE), created_at |-> Datetime(0, 0, 0), recurrence |-> rec]
Unsched == GuiTask(1, 1, None, None)
InWindow == GuiTask(2, 2, Datetime(1, 1, 0), None)
Outside == GuiTask(3, 3, Datetime(WindowDays + 5, 0, 0), None)
EveryWeek == GuiTask(4, 4, Datetime(0, 1, 0), Weekly)
Inert == GuiTask(5, 5, None, Daily)
GuiCollections ==
    { <<>>, <<Unsched, InWindow>>, <<Unsched, Outside>>, <<InWindow, EveryWeek>>, <<Unsched, Inert>> }

OtherStoreVarsIdle ==
    UNCHANGED <<os_name, tmp_file, backups, pc, tasks, ret, wpos, tui>>

GuiInit ==
    /\ os_name = "posix"
    /\ \E c \in GuiCollections : DATA_FILE = Saved(c)
    /\ tmp_file = <<>> /\ backups = {} /\ pc = <<>> /\ tasks = <<>> /\ ret = <<>> /\ wpos = <<>>
    /\ tui = <<>>
    /\ clock = 0
    /\ gui = load_and_display_tasks(
                [tasks |-> <<>>, widgets |-> <<>>, timer |-> -1, closed |-> FALSE, ops |-> 0],
                DATA_FILE, clock)
    /\ hist = [loaded |-> gui.tasks, deleted |-> {}, mutated |-> FALSE, onlyAddDelete |-> TRUE,
               burstLen |-> 0, burstSaves |-> 0, sinceMut |-> 0, justSaved |-> FALSE]

GuiCanAct == ~gui.closed /\ gui.ops < MaxGuiOps

Min(a, b) == IF a < b THEN a ELSE b
Max(a, b) == IF a > b THEN a ELSE b

MutationSeen(h) ==
    [h EXCEPT !.mutated = TRUE, !.burstSaves = 0, !.sinceMut = 0, !.justSaved = FALSE,
              !.burstLen = IF gui.timer >= 0 THEN @ + 1 ELSE 1]

\* assignment to a field of the task object a widget shows: the object is
\* an element of self.tasks unless it is a copy made for an occurrence
SetField(g, w, f, val) ==
    LET r == g.widgets[w].ref IN
    [g EXCEPT !.widgets[w].task[f] = val,
              !.tasks = IF r > 0 THEN [@ EXCEPT ![r][f] = val] ELSE @]

\* TaskWidget.toggle_done
toggle_done(w) ==
    /\ GuiCanAct
    /\ w \in 1..Len(gui.widgets)
    /\ gui' = [on_task_changed(SetField(gui, w, "done", Bool(~gui.widgets[w].task.done.v)))
                 EXCEPT !.ops = @ + 1]
    /\ hist' = [MutationSeen(hist) EXCEPT !.onlyAddDelete = FALSE]
    /\ UNCHANGED <<DATA_FILE, clock>>
    /\ OtherStoreVarsIdle

\* TaskWidget.edit_task with an accepted dialog: title, category and when
\* of the dialog's task are stored into the shown task
edit_task(w, title, when) ==
    /\ GuiCanAct
    /\ w \in 1..Len(gui.widgets)
    /\ gui' = [on_task_changed(SetField(SetField(gui, w, "title", title), w, "when", when))
                 EXCEPT !.ops = @ + 1]
    /\ hist' = [MutationSeen(hist) EXCEPT !.onlyAddDelete = FALSE]
    /\ UNCHANGED <<DATA_FILE, clock>>
    /\ OtherStoreVarsIdle

RemoveAt(s, i) == SubSeq(s, 1, i - 1) \o SubSeq(s, i + 1, Len(s))

\* TaskWidget.delete_task: the signal, then the widget leaves the board
delete_task(w) ==
    /\ GuiCanAct
    /\ w \in 1..Len(gui.widgets)
    /\ gui' = [on_task_changed(gui) EXCEPT !.widgets = RemoveAt(@, w), !.ops = @ + 1]
    /\ hist' = [MutationSeen(hist) EXCEPT !.deleted = @ \cup {gui.widgets[w].task.id}]
    /\ UNCHANGED <<DATA_FILE, clock>>
    /\ OtherStoreVarsIdle

\* str(datetime.now().timestamp()): the digits of the clock, ".", a digit
Dot == 46
TimestampId(c) == Str(Digits(c) \o <<Dot, 0>>)

\* NewTaskDialog.create_task and new_task_dialog: the task constructed at
\* the clock's reading is appended, the collection saved and loaded again.
\* Time passes while the dialog is open.
new_task_dialog(title, when, rec) ==
    /\ GuiCanAct
    /\ clock < MaxGuiClock
    /\ LET t == [id |-> TimestampId(clock), title |-> title, when |-> when, category |-> None,
                 recurrence |-> rec, done |-> Bool(FALSE), created_at |-> Now(clock)]
           saved == Saved(Append(gui.tasks, t)) IN
        /\ DATA_FILE' = saved
        /\ gui' = [load_and_display_tasks(gui, saved, clock) EXCEPT !.ops = @ + 1]
    /\ clock' = clock + 1
    /\ hist' = [hist EXCEPT !.justSaved = FALSE]
    /\ OtherStoreVarsIdle

\* 400 ms pass
TimerTick ==
    /\ ~gui.closed
    /\ gui.timer > 0
    /\ gui' = [gui EXCEPT !.timer = Max(0, @ - TickMs)]
    /\ hist' = [hist EXCEPT !.sinceMut = Min(SaveDelayMs, @ + TickMs), !.justSaved = FALSE]
    /\ UNCHANGED <<DATA_FILE, clock>>
    /\ OtherStoreVarsIdle

\* the single-shot timer fires: _perform_save
Timeout ==
    /\ ~gui.closed
    /\ gui.timer = 0
    /\ gui' = _perform_save(gui)
    /\ DATA_FILE' = Saved(gui'.tasks)
    /\ hist' = [hist EXCEPT !.burstSaves = @ + 1, !.justSaved = TRUE]
    /\ UNCHANGED <<clock>>
    /\ OtherStoreVarsIdle

\* quit_app: save_tasks(self.tasks), close(); the event loop ends with the
\* last window, so a pending timer never fires
quit_app ==
    /\ ~gui.closed
    /\ DATA_FILE' = Saved(gui.tasks)
    /\ gui' = [gui EXCEPT !.closed = TRUE]
    /\ hist' = [hist EXCEPT !.justSaved = FALSE]
    /\ UNCHANGED <<clock>>
    /\ OtherStoreVarsIdle

GuiTitles == {Str(Ch(7))}
GuiWhens == {None, Datetime(2, 0, 0)}
NewTaskInputs == {[when |-> None, rec |-> None], [when |-> Datetime(2, 0, 0), rec |-> Weekly]}

GuiNext ==
    \/ \E w \in 1..WindowDays : toggle_done(w)
    \/ \E w \in 1..WindowDays, title \in GuiTitles, when \in GuiWhens : edit_task(w, title, when)
    \/ \E w \in 1..WindowDays : delete_task(w)
    \/ \E title \in GuiTitles, d \in NewTaskInputs : new_task_dialog(title, d.when, d.rec)
    \/ TimerTick
    \/ Timeout
    \/ quit_app

GuiSpec == GuiInit /\ [][GuiNext]_vars

(***************************************************************************)
(* Claims about the desktop front end                                      *)
(***************************************************************************)
\* the collection a load would find in the file
Persisted(fields) == load_tasks(DATA_FILE, fields, Now(clock)).tasks
IdsOf(ts) == {ts[i].id : i \in 1..Len(ts)}
Distinct(ts) == \A i, j \in 1..Len(ts) : i # j => ts[i].id # ts[j].id

\* C5: without a delete, every task of the loaded collection is still in
\* the persisted collection, whatever was toggled, edited or saved.
C5_OnlyDeleteRemoves ==
    \A id \in IdsOf(hist.loaded) : id \in hist.deleted \/ id \in IdsOf(Persisted(GuiTaskFields))

Shown(id) == \E w \in 1..Len(gui.widgets) : gui.widgets[w].task.id = id

C8_QuitPersistsAll ==
    gui.closed =>
        /\ \A id \in hist.deleted : Shown(id) \/ id \notin IdsOf(Persisted(GuiTaskFields))
        /\ \A w \in 1..Len(gui.widgets) :
              \E i \in 1..Len(Persisted(GuiTaskFields)) :
                  LET t == Persisted(GuiTaskFields)[i] IN
                  /\ t.id = gui.widgets[w].task.id
                  /\ t.done = gui.widgets[w].task.done
                  /\ t.title = gui.widgets[w].task.title

\* C9: after add and delete operations the ids of the collection, in
\* memory and in the file, are pairwise distinct.
C9_IdsDistinct ==
    hist.onlyAddDelete => Distinct(gui.tasks) /\ Distinct(Persisted(GuiTaskFields))

\* C16: while a recurring task of the loaded collection has two or more
\* occurrences on the board, the persisted collection holds exactly one
\* record with its id, and (nothing having been edited or toggled) that
\* record holds the anchor's own `when`.
WidgetsOf(id) == {w \in 1..Len(gui.widgets) : gui.widgets[w].task.id = id}
RecordsOf(id) == {i \in 1..Len(Persisted(GuiTaskFields)) : Persisted(GuiTaskFields)[i].id = id}

C16_OccurrencesNotPersisted ==
    \A j \in 1..Len(hist.loaded) :
        LET a == hist.loaded[j] IN
        (Truthy(a.recurrence) /\ Cardinality(WidgetsOf(a.id)) >= 2) =>
            /\ Cardinality(RecordsOf(a.id)) = 1
            /\ hist.onlyAddDelete =>
                  \A i \in RecordsOf(a.id) : Persisted(GuiTaskFields)[i].when = a.when

\* C26: after one toggle or edit, and the save that follows it, every task
\* of the loaded collection is in memory and in the file with the id and
\* the created_at it had, and every task but the one acted on is there
\* unchanged.
KeepsFrame(after) ==
    /\ \A j \in 1..Len(hist.loaded) :
          \E i \in 1..Len(after) : /\ after[i].id = hist.loaded[j].id
                                   /\ after[i].created_at = hist.loaded[j].created_at
    /\ Cardinality({j \in 1..Len(hist.loaded) :
                       ~\E i \in 1..Len(after) : after[i] = hist.loaded[j]}) <= 1

C26_EditKeepsFrame ==
    (hist.justSaved /\ gui.ops = 1 /\ ~hist.onlyAddDelete) =>
        /\ KeepsFrame(gui.tasks)
        /\ KeepsFrame(Persisted(GuiTaskFields))

(***************************************************************************)
(* Expansion of recurring tasks over a window of days                      *)
(***************************************************************************)
MaxAnchorDay == 8       \* the anchor's `when` lies on one of the days 0..8
MaxFirstDay == 7        \* the window starts on one of the days 0..7
WindowLengths == {1, 7, WindowDays}

Anchors ==
    { GuiTask(4, 4, Datetime(d, sec, 0), rec) :
        d \in 0..MaxAnchorDay, sec \in 0..(DayLen - 1), rec \in {None, Daily, Weekdays, Weekly} }

\* the inputs: one task, an inclusive window of days and the time of day
\* `at` at which the window is built (today = datetime.now())
ExpandInit ==
    /\ os_name = "posix"
    /\ DATA_FILE = NoFile
    /\ tmp_file = <<>> /\ backups = {} /\ pc = <<>> /\ tasks = <<>> /\ wpos = <<>>
    /\ gui = <<>> /\ tui = <<>>
    /\ clock = 0
    /\ hist = <<>>
    /\ \E t \in Anchors, first \in 0..MaxFirstDay, n \in WindowLengths :
       \E at \in 0..(DayLen - 1) :
          ret = [called |-> FALSE, task |-> t, first |-> first, last |-> first + n - 1, at |-> at]

ExpandIdle ==
    UNCHANGED <<os_name, DATA_FILE, tmp_file, backups, clock, pc, tasks, wpos, hist, gui, tui>>

\* _occurrences_between(tasks, start, end) for one task
Expand ==
    /\ ~ret.called
    /\ ret' = [ret EXCEPT !.called = TRUE] @@
              [by |-> "_occurrences_between",
               out |-> _occurrences_between(<<ret.task>>, Datetime(ret.first, ret.at, 0),
                                            Datetime(ret.last, ret.at, 0))]
    /\ ExpandIdle

\* the board that load_and_display_tasks builds for one task on the day
\* ret.first: the window is the 14 day columns
Display ==
    /\ ~ret.called
    /\ ret.last = ret.first + WindowDays - 1
    /\ ret' = [ret EXCEPT !.called = TRUE] @@
              [by |-> "load_and_display_tasks", out |-> BoardOf(<<ret.task>>, Datetime(ret.first, ret.at, 0))]
    /\ ExpandIdle

ExpandNext == Expand \/ Display

ExpandSpec == ExpandInit /\ [][ExpandNext]_vars

\* the days of the occurrences, in the order returned
OutDays == [i \in 1..Len(ret.out) |-> ret.out[i].task.when.v.day]

\* every occurrence is at the anchor's time of day and carries its id
AtAnchorTime ==
    \A i \in 1..Len(ret.out) :
        /\ ret.out[i].task.when.v.sec = ret.task.when.v.sec
        /\ ret.out[i].task.when.v.us = ret.task.when.v.us
        /\ ret.out[i].task.id = ret.task.id

\* exactly one occurrence on each day of D, none on another day
OneOnEachDayOf(D) ==
    /\ \A d \in D : Cardinality({i \in 1..Len(ret.out) : OutDays[i] = d}) = 1
    /\ \A i \in 1..Len(ret.out) : OutDays[i] \in D

\* C19: a weekly task has exactly one occurrence on each day of the
\* inclusive window that falls on the anchor's weekday, at the anchor's time
\* of day and with its id: exactly two in a window of 14 days.
C19_WeeklyOccurrences ==
    (ret.called /\ ret.task.recurrence = Weekly) =>
        /\ OneOnEachDayOf({d \in ret.first..ret.last : d % 7 = ret.task.when.v.day % 7})
        /\ AtAnchorTime
        /\ ret.last - ret.first + 1 = WindowDays => Len(ret.out) = 2

C19_Witness ==
    /\ ret.called /\ ret.task.recurrence = Weekly
    /\ ret.last - ret.first + 1 = WindowDays
    /\ ret.task.when.v.day % 7 = ret.first % 7
    /\ ret.first > 0
    /\ OutDays = <<ret.first, ret.first + 7>>

\* C20: a weekdays task has, in any window of 7 days, exactly 5 occurrences:
\* one on each Monday-to-Friday day of the window, at the anchor's time of
\* day, none on a Saturday or Sunday.
C20_WeekdaysOccurrences ==
    (ret.called /\ ret.task.recurrence = Weekdays /\ ret.last - ret.first + 1 = 7) =>
        /\ Len(ret.out) = 5
        /\ OneOnEachDayOf({d \in ret.first..ret.last : d % 7 \in 0..4})
        /\ AtAnchorTime

C20_Witness ==
    /\ ret.called /\ ret.task.recurrence = Weekdays
    /\ ret.last - ret.first + 1 = 7
    /\ ret.first % 7 = 3
    /\ Len(ret.out) = 5
    /\ ret.task.when.v.day > ret.first

\* C21: a task that does not recur and has a `when` has exactly one
\* occurrence, the task itself, when the calendar day of `when` lies in the
\* window first..last (whatever the times of day), and none otherwise.
C21_SingleOccurrence ==
    (ret.called /\ ~Truthy(ret.task.recurrence) /\ ret.task.when # None) =>
        IF ret.first <= ret.task.when.v.day /\ ret.task.when.v.day <= ret.last
        THEN Len(ret.out) = 1 /\ ret.out[1].task = ret.task
        ELSE ret.out = <<>>

\* a task of today, earlier than the moment at which the board is built
C21_Witness ==
    /\ ret.called /\ ret.by = "load_and_display_tasks"
    /\ ~Truthy(ret.task.recurrence)
    /\ ret.task.when.v.day = ret.first
    /\ ret.task.when.v.sec < ret.at
    /\ Len(ret.out) = 1

(***************************************************************************)
(* parse_datetime                                                          *)
(***************************************************************************)
Plus == 43       \* "+": the text <<Plus, n>> stands for "in n days"

Blank(text) == \A i \in 1..Len(text) : text[i] = Space

\* parsedatetime's Calendar.parseDT anchored at datetime.now(): status 0 is
\* no match, 1 a date; a relative date keeps the time of day of the anchor
parseDT(text, now) ==
    IF Len(text) = 2 /\ text[1] = Plus
    THEN [status |-> 1, dt |-> Datetime(now.v.day + text[2], now.v.sec, now.v.us), raised |-> FALSE]
    ELSE [status |-> 0, dt |-> now, raised |-> FALSE]

\* the call raising an exception instead of returning (lines 62-63)
PdtRaised == [status |-> 0, dt |-> None, raised |-> TRUE]

\* dateutil's parser.parse(text, fuzzy=False): a datetime for ISO text (the
\* tokenizer skips spaces), an exception (ok = FALSE) for anything else
dateutil_parse(text) ==
    LET fields == SelectSeq(text, LAMBDA c : c # Space) IN
    IF IsIsoText(Str(fields)) THEN [ok |-> TRUE, dt |-> fromisoformat(Str(fields))]
    ELSE [ok |-> FALSE, dt |-> None]

\* parse_datetime from line 57 on, given what cal.parseDT did (r): the
\* result and the strategy it came from. Line 54 returned None for blank
\* text before any strategy was tried.
\* (variant: without the fallback to dateutil)
parse_datetime_from_pdt_only(text, r) ==
    IF Len(text) = 0 \/ Blank(text) THEN [result |-> None, via |-> "blank"]
    ELSE IF ~r.raised /\ r.status > 0 THEN [result |-> r.dt, via |-> "parsedatetime"]
    ELSE [result |-> None, via |-> "none"]

\* (variant: an exception of parseDT ends the attempt with None)
parse_datetime_from_no_retry(text, r) ==
    IF Len(text) = 0 \/ Blank(text) THEN [result |-> None, via |-> "blank"]
    ELSE IF r.raised THEN [result |-> None, via |-> "none"]
    ELSE IF r.status > 0 THEN [result |-> r.dt, via |-> "parsedatetime"]
    ELSE IF dateutil_parse(text).ok THEN [result |-> dateutil_parse(text).dt, via |-> "dateutil"]
    ELSE [result |-> None, via |-> "none"]

parse_datetime_from(text, r) ==
    IF Len(text) = 0 \/ Blank(text) THEN [result |-> None, via |-> "blank"]
    ELSE IF ~r.raised /\ r.status > 0 THEN [result |-> r.dt, via |-> "parsedatetime"]
    ELSE IF dateutil_parse(text).ok THEN [result |-> dateutil_parse(text).dt, via |-> "dateutil"]
    ELSE [result |-> None, via |-> "none"]

\* parse_datetime: None for blank text, else the first strategy that matches,
\* else None
parse_datetime(text, now) == parse_datetime_from(text, parseDT(text, now)).result

\* parse_datetime applied to texts of up to three characters
MaxTextLen == 3
MaxParseClock == 2
TextChars == {Space, Plus, 1, 99}
RECURSIVE TextsUpTo(_)
TextsUpTo(n) ==
    IF n = 0 THEN {<<>>}
    ELSE TextsUpTo(n - 1) \cup {Append(t, c) : t \in TextsUpTo(n - 1), c \in TextChars}

ParseInit ==
    /\ os_name = "posix"
    /\ DATA_FILE = NoFile
    /\ tmp_file = <<>> /\ backups = {} /\ pc = <<>> /\ tasks = <<>> /\ wpos = <<>>
    /\ gui = <<>> /\ tui = <<>>
    /\ clock = 0
    /\ ret = [called |-> FALSE]
    /\ hist = <<>>

\* cal.parseDT is not called for blank text; called, it returns or raises
NotCalled == [status |-> 0, dt |-> None, raised |-> FALSE, called |-> FALSE]
PdtOutcomes(text, now) ==
    IF Len(text) = 0 \/ Blank(text) THEN {NotCalled}
    ELSE {parseDT(text, now) @@ [called |-> TRUE], PdtRaised @@ [called |-> TRUE]}

\* a caller passes `text` to parse_datetime at the clock's reading
Resolve(text) ==
    /\ \E r \in PdtOutcomes(text, Now(clock)) :
          ret' = [called |-> TRUE, text |-> text, at |-> clock, pdt |-> r,
                  result |-> parse_datetime_from(text, r).result,
                  via |-> parse_datetime_from(text, r).via]
    /\ UNCHANGED <<os_name, DATA_FILE, tmp_file, backups, clock, pc, tasks, wpos, hist, gui, tui>>

ParseTick ==
    /\ clock < MaxParseClock
    /\ clock' = clock + 1
    /\ UNCHANGED <<os_name, DATA_FILE, tmp_file, backups, pc, tasks, ret, wpos, hist, gui, tui>>

ParseNext ==
    \/ \E text \in TextsUpTo(MaxTextLen) : Resolve(text)
    \/ ParseTick

ParseSpec == ParseInit /\ [][ParseNext]_vars

\* C12 as stated: blank text gives NoDate (None, an absent `when`), and a
\* text that is not blank and that both strategies fail on gives a
\* ParseFailure that carries the text: a value different from NoDate.
ParseFailure(text) == [t |-> "ParseFailure", v |-> text]
BothFail(text, r) == (r.raised \/ r.status = 0) /\ ~dateutil_parse(text).ok

C23_Deterministic ==
    [][(ret.called /\ ret'.called /\ ret'.text = ret.text
            /\ ~ret.pdt.raised /\ ~ret'.pdt.raised)
            => ret'.result = ret.result]_vars

\* the relative strategy classified the text (status 1, 2 or 3)
Matched(r) == r.called /\ ~r.raised /\ r.status > 0
NoMatch(r) == r.called /\ ~r.raised /\ r.status = 0

\* C24 as stated: a text the relative strategy classifies resolves to its
\* timestamp, and the strict strategy's result is returned only when the
\* relative strategy reported no-match.
C24_StrictOnlyOnNoMatch ==
    ret.called =>
        /\ Matched(ret.pdt) => ret.result = ret.pdt.dt
        /\ ret.via = "dateutil" => NoMatch(ret.pdt)

\* C24 as amended: the strict strategy's result is returned exactly when the
\* text is not blank, the relative strategy reported no-match or raised, and
\* the strict strategy parses the text.
C24_StrictOnNoMatchOrRaise ==
    ret.called =>
        /\ Matched(ret.pdt) => (ret.result = ret.pdt.dt /\ ret.via = "parsedatetime")
        /\ ret.via = "dateutil" <=>
              ((NoMatch(ret.pdt) \/ (ret.pdt.called /\ ret.pdt.raised)) /\ dateutil_parse(ret.text).ok)
        /\ ret.via = "dateutil" => ret.result = dateutil_parse(ret.text).dt

C24_Witness ==
    /\ ret.called /\ ret.pdt.called /\ ret.pdt.raised
    /\ ret.via = "dateutil"
    /\ ret.result # None

(***************************************************************************)
(* The terminal front end (tui.py) and the command line (WORKWEEKCODE.py)  *)
(***************************************************************************)
LastCol == 14
MaxTuiOps == 2       \* keys that change the collection, per run
MaxTuiClock == 1

\* the dict `selection` with .get(col, 0)
SelGet(sel, col) == IF col \in DOMAIN sel THEN sel[col] ELSE 0
SelSet(sel, col, idx) == [c \in DOMAIN sel \cup {col} |-> IF c = col THEN idx ELSE sel[c]]

WhenBefore(a, b) ==
    IF a.v.day # b.v.day THEN a.v.day < b.v.day
    ELSE IF a.v.sec # b.v.sec THEN a.v.sec < b.v.sec
    ELSE a.v.us < b.v.us

\* sorted(..., key=lambda x: x.when) over positions of self.tasks (stable)
RECURSIVE InsertByWhen(_, _, _)
InsertByWhen(ts, sorted, i) ==
    IF sorted = <<>> THEN <<i>>
    ELSE IF ~WhenBefore(ts[Head(sorted)].when, ts[i].when) /\ ts[Head(sorted)].when # ts[i].when
         THEN <<i>> \o sorted
    ELSE <<Head(sorted)>> \o InsertByWhen(ts, Tail(sorted), i)

RECURSIVE SortByWhen(_, _)
SortByWhen(ts, idxs) ==
    IF idxs = <<>> THEN <<>>
    ELSE InsertByWhen(ts, SortByWhen(ts, SubSeq(idxs, 1, Len(idxs) - 1)), idxs[Len(idxs)])

\* the positions i of ts, in order, with i in `keep`
RECURSIVE Positions(_, _, _)
Positions(ts, i, keep) ==
    IF i > Len(ts) THEN <<>>
    ELSE (IF i \in keep THEN <<i>> ELSE <<>>) \o Positions(ts, i + 1, keep)

\* _tasks_for_col: the positions in self.tasks of the tasks of a column
_tasks_for_col(ts, col, c) ==
    IF col = 0 THEN Positions(ts, 1, {i \in 1..Len(ts) : ts[i].when = None})
    ELSE SortByWhen(ts, Positions(ts, 1,
            {i \in 1..Len(ts) : Truthy(ts[i].when) /\ ts[i].when.v.day = DayOf(c) + col - 1}))

NoPending == [set |-> FALSE, col |-> 0, idx |-> 0]

TuiFiles ==
    { File(<<Open, Close>>),
      File(<<Open, Obj(LegacyObj), Close>>),
      File(json_dumps(<<TaskB, [TaskA EXCEPT !.when = Datetime(1, 0, 0)]>>)) }

TuiInit ==
    /\ os_name = "posix"
    /\ DATA_FILE \in TuiFiles
    /\ tmp_file = <<>> /\ backups = {} /\ pc = <<>> /\ tasks = <<>> /\ ret = <<>> /\ wpos = <<>>
    /\ gui = <<>>
    /\ clock = 0
    /\ tui = [tasks |-> load_tasks(DATA_FILE, TaskFields, Now(clock)).tasks,
              focus_col |-> 0, selection |-> <<>>, pending_delete |-> NoPending,
              raised |-> "none", cli |-> "none", ops |-> 0]
    /\ hist = [loaded |-> tui.tasks, lastEdit |-> [kind |-> "never"], lastAdd |-> [kind |-> "never"],
               lastKey |-> "none", pendingId |-> None]

TuiOthers == UNCHANGED <<os_name, tmp_file, backups, pc, tasks, ret, wpos, gui>>
TuiRest == TuiOthers /\ UNCHANGED hist
\* the key just handled: "d" or another key
Key(k) == TuiOthers /\ hist' = [hist EXCEPT !.lastKey = k]
TuiRuns == tui.raised = "none"
TuiCanChange == TuiRuns /\ tui.ops < MaxTuiOps

FocusTasks == _tasks_for_col(tui.tasks, tui.focus_col, clock)

action_left ==
    /\ TuiRuns
    /\ tui' = [tui EXCEPT !.focus_col = Max(0, @ - 1)]
    /\ UNCHANGED <<DATA_FILE, clock>> /\ Key("other")

action_right ==
    /\ TuiRuns
    /\ tui' = [tui EXCEPT !.focus_col = Min(LastCol, @ + 1)]
    /\ UNCHANGED <<DATA_FILE, clock>> /\ Key("other")

action_up ==
    /\ TuiRuns
    /\ FocusTasks # <<>>
    /\ tui' = [tui EXCEPT !.selection =
                  SelSet(@, tui.focus_col, Max(0, SelGet(@, tui.focus_col) - 1))]
    /\ UNCHANGED <<DATA_FILE, clock>> /\ Key("other")

action_down ==
    /\ TuiRuns
    /\ FocusTasks # <<>>
    /\ tui' = [tui EXCEPT !.selection =
                  SelSet(@, tui.focus_col, Min(Len(FocusTasks) - 1, SelGet(@, tui.focus_col) + 1))]
    /\ UNCHANGED <<DATA_FILE, clock>> /\ Key("other")

\* action_toggle_done: tasks[idx] raises IndexError for a stale index
action_toggle_done ==
    /\ TuiCanChange
    /\ FocusTasks # <<>>
    /\ LET idx == SelGet(tui.selection, tui.focus_col) IN
        IF idx >= Len(FocusTasks)
        THEN tui' = [tui EXCEPT !.raised = "IndexError"] /\ UNCHANGED DATA_FILE
        ELSE /\ tui' = [tui EXCEPT !.tasks[FocusTasks[idx + 1]].done = Bool(~@.v), !.ops = @ + 1]
             /\ DATA_FILE' = Saved(tui'.tasks)
    /\ UNCHANGED <<clock>> /\ Key("other")

action_delete ==
    /\ TuiRuns
    /\ FocusTasks # <<>>
    /\ tui' = [tui EXCEPT !.pending_delete =
                  [set |-> TRUE, col |-> tui.focus_col, idx |-> SelGet(tui.selection, tui.focus_col)]]
    /\ UNCHANGED <<DATA_FILE, clock>> /\ TuiOthers
    /\ hist' = [hist EXCEPT !.lastKey = "d",
                            !.pendingId =
                                IF SelGet(tui.selection, tui.focus_col) < Len(FocusTasks)
                                THEN tui.tasks[FocusTasks[SelGet(tui.selection, tui.focus_col) + 1]].id
                                ELSE None]

\* data.get(key): None when the edited JSON has no such key
DataGet(data, key) == IF key \in DOMAIN data THEN data[key] ELSE None

\* lines 277-296: the edits applied to the first task with the id of data
EditedTask(t, data, now) ==
    LET cat == DataGet(data, "category")
        when_str == DataGet(data, "when")
        parsed == IF when_str.t = "str" THEN parse_datetime(when_str.v, now) ELSE None IN
    [t EXCEPT !.title = IF "title" \in DOMAIN data THEN data.title ELSE @,
              !.category = IF cat # Str(<<>>) THEN cat ELSE None,
              !.when = IF ~Truthy(when_str) THEN None
                       ELSE IF Truthy(parsed) THEN parsed
                       ELSE IF IsIsoText(when_str) THEN fromisoformat(when_str)
                       ELSE @]

FirstWithId(ts, id) ==
    IF \E i \in 1..Len(ts) : ts[i].id = id
    THEN CHOOSE i \in 1..Len(ts) : ts[i].id = id /\ \A j \in 1..(i - 1) : ts[j].id # id
    ELSE 0

\* action_edit: the payload of the selected task comes back from the
\* editor as `data`, with the fields in `changes` rewritten by the user
action_edit(changes) ==
    /\ TuiCanChange
    /\ FocusTasks # <<>>
    /\ SelGet(tui.selection, tui.focus_col) < Len(FocusTasks)
    /\ LET t == tui.tasks[FocusTasks[SelGet(tui.selection, tui.focus_col) + 1]]
           payload == [id |-> t.id, title |-> t.title,
                       when |-> IF Truthy(t.when) THEN Str(isoformat(t.when)) ELSE Str(<<>>),
                       category |-> IF Truthy(t.category) THEN t.category ELSE Str(<<>>)]
           data == [k \in DOMAIN payload |-> IF k \in DOMAIN changes THEN changes[k] ELSE payload[k]]
           i == FirstWithId(tui.tasks, DataGet(data, "id")) IN
        /\ tui' = [tui EXCEPT !.tasks = IF i = 0 THEN @
                                        ELSE [@ EXCEPT ![i] = EditedTask(@, data, Now(clock))],
                              !.ops = @ + 1]
        /\ DATA_FILE' = Saved(tui'.tasks)
        /\ hist' = [hist EXCEPT !.lastKey = "other", !.lastEdit =
                        [kind |-> "edit", when_str |-> DataGet(data, "when"), at |-> clock,
                         tasksBefore |-> tui.tasks, tasksAfter |-> tui'.tasks,
                         fileBefore |-> DATA_FILE, fileAfter |-> DATA_FILE']]
    /\ UNCHANGED <<clock>> /\ TuiOthers

action_confirm ==
    /\ TuiCanChange
    /\ tui.pending_delete.set
    /\ LET ts == _tasks_for_col(tui.tasks, tui.pending_delete.col, clock)
           idx == tui.pending_delete.idx IN
        IF ts = <<>> \/ idx >= Len(ts)
        THEN tui' = [tui EXCEPT !.pending_delete = NoPending] /\ UNCHANGED DATA_FILE
        ELSE /\ tui' = [tui EXCEPT !.tasks = RemoveId(@, tui.tasks[ts[idx + 1]].id),
                                   !.pending_delete = NoPending, !.ops = @ + 1]
             /\ DATA_FILE' = Saved(tui'.tasks)
    /\ UNCHANGED <<clock>> /\ Key("other")

action_cancel ==
    /\ TuiRuns
    /\ tui' = [tui EXCEPT !.pending_delete = NoPending]
    /\ UNCHANGED <<DATA_FILE, clock>> /\ Key("other")

\* `workweek add`: load_tasks(), next_id, parse, Task(id=next_id, ...),
\* save_tasks. max() over str ids gives a str, and str + 1 raises
\* TypeError; with no tasks next_id is the int 1, which Task rejects.
CliNextId(ts) == IF ts # <<>> THEN [raised |-> "TypeError", id |-> None]
                 ELSE [raised |-> "none", id |-> Num(1)]

add(title, when_text) ==
    /\ TuiRuns
    /\ tui.cli = "none"
    /\ LET l == load_tasks(DATA_FILE, TaskFields, Now(clock))
           n == CliNextId(l.tasks)
           parsed == parse_datetime(when_text, Now(clock))
           item == [id |-> n.id, title |-> title, when |-> parsed, category |-> None] IN
        IF l.kind = "raise" THEN tui' = [tui EXCEPT !.cli = l.exc] /\ UNCHANGED DATA_FILE
        ELSE IF n.raised # "none" THEN tui' = [tui EXCEPT !.cli = n.raised] /\ UNCHANGED DATA_FILE
        ELSE IF Len(when_text) > 0 /\ ~Truthy(parsed)
             THEN tui' = [tui EXCEPT !.cli = "Exit(1)"] /\ UNCHANGED DATA_FILE
        ELSE IF ~TaskAccepts(item, TaskFields)
             THEN tui' = [tui EXCEPT !.cli = "ValidationError"] /\ UNCHANGED DATA_FILE
        ELSE /\ tui' = [tui EXCEPT !.cli = "added"]
             /\ DATA_FILE' = Saved(Append(l.tasks, Task(item, TaskFields, Now(clock))))
    /\ hist' = [hist EXCEPT !.lastAdd =
                    [kind |-> "add", title |-> title, when_text |-> when_text, at |-> clock,
                     result |-> tui'.cli,
                     fileBefore |-> DATA_FILE, fileAfter |-> DATA_FILE']]
    /\ UNCHANGED <<clock>> /\ TuiOthers

\* time passes: the 14 day columns are computed from datetime.now()
TuiTick ==
    /\ TuiRuns
    /\ clock < MaxTuiClock
    /\ clock' = clock + 1
    /\ UNCHANGED <<DATA_FILE, tui>> /\ TuiRest

\* what the user may leave in the edited file
EditChanges ==
    { [title |-> Str(<<>>)],
      [title |-> Str(Ch(8)), category |-> Str(Ch(3))],
      [when |-> Str(<<1, 1>>)],
      [when |-> Str(<<Plus, 1>>)],
      [when |-> Str(<<99>>)],
      [title |-> Str(Ch(8)), when |-> Str(<<99>>)],
      [when |-> Str(<<>>)] }

TuiNext ==
    \/ action_left
    \/ action_right
    \/ action_up
    \/ action_down
    \/ action_toggle_done
    \/ action_delete
    \/ \E ch \in EditChanges : action_edit(ch)
    \/ action_confirm
    \/ action_cancel
    \/ TuiTick

TuiSpec == TuiInit /\ [][TuiNext]_vars

\* The command line: one `workweek add` per run, on any loadable store
CliFiles ==
    { NoFile,
      File(<<Open, Close>>),
      File(<<Open, Obj(LegacyObj), Close>>),
      File(<<Open, Obj(Legacy10Obj), Obj(StaleObj), Close>>),
      File(<<Open, Obj(LegacyObj), Obj(LenientObj), Close>>),
      File(json_dumps(<<TaskA, TaskB>>)) }
CliTitles == {Str(Ch(6)), Str(Ch(7))}
CliWhens == {<<>>, <<Space>>, <<1, 1>>, <<Plus, 1>>, <<99>>}

CliInit ==
    /\ os_name = "posix"
    /\ DATA_FILE \in CliFiles
    /\ tmp_file = <<>> /\ backups = {} /\ pc = <<>> /\ tasks = <<>> /\ ret = <<>> /\ wpos = <<>>
    /\ gui = <<>>
    /\ clock = 0
    /\ tui = [tasks |-> <<>>, focus_col |-> 0, selection |-> <<>>, pending_delete |-> NoPending,
              raised |-> "none", cli |-> "none", ops |-> 0]
    /\ hist = [loaded |-> <<>>, lastEdit |-> [kind |-> "never"], lastAdd |-> [kind |-> "never"],
               lastKey |-> "none", pendingId |-> None]

CliNext ==
    \/ \E title \in CliTitles, when_text \in CliWhens : add(title, when_text)
    \/ TuiTick

CliSpec == CliInit /\ [][CliNext]_vars

\* C10: every task in memory and in the file has a title of length >= 1.
TitleOk(t) == t.title.t = "str" /\ Len(t.title.v) >= 1

FileTitlesOk ==
    \A i \in 1..Len(DATA_FILE.bytes) :
        DATA_FILE.bytes[i].k = "obj" => TitleOk(DATA_FILE.bytes[i].o)

C10_TitlesNonEmpty ==
    /\ \A i \in 1..Len(tui.tasks) : TitleOk(tui.tasks[i])
    /\ FileTitlesOk

\* the collection load_tasks returns for a file (empty when it raises)
CollectionOf(file, c) == load_tasks(file, TaskFields, Now(c)).tasks

\* C11: an edit whose date text is not blank and is resolved by neither
\* strategy is rejected: the collection in memory and the persisted
\* collection are what they were before the edit.
Unresolvable(text, now) == Len(text) > 0 /\ ~Blank(text) /\ parse_datetime(text, now) = None

C11_BadDateRejected ==
    LET e == hist.lastEdit IN
    (e.kind = "edit" /\ e.when_str.t = "str" /\ Unresolvable(e.when_str.v, Now(e.at))) =>
        /\ e.tasksAfter = e.tasksBefore
        /\ CollectionOf(e.fileAfter, e.at) = CollectionOf(e.fileBefore, e.at)

\* C13: `add` on a loadable store, with no date or a date that resolves,
\* succeeds: the persisted collection is the previous one followed by one
\* new task, not done, whose id is the largest previous id plus one (1 for
\* an empty store).
RECURSIVE DigitsValue(_)
DigitsValue(ds) == IF ds = <<>> THEN 0 ELSE 10 * DigitsValue(SubSeq(ds, 1, Len(ds) - 1)) + ds[Len(ds)]

RECURSIVE MaxId(_)
MaxId(ts) == IF ts = <<>> THEN 0 ELSE Max(DigitsValue(Head(ts).id.v), MaxId(Tail(ts)))

C13_AddSucceeds ==
    LET a == hist.lastAdd
        before == CollectionOf(a.fileBefore, a.at)
        after == CollectionOf(a.fileAfter, a.at) IN
    (a.kind = "add" /\ (Len(a.when_text) = 0 \/ parse_datetime(a.when_text, Now(a.at)) # None)) =>
        /\ a.result = "added"
        /\ Len(after) = Len(before) + 1
        /\ SubSeq(after, 1, Len(before)) = before
        /\ after[Len(after)].title = a.title
        /\ after[Len(after)].done = Bool(FALSE)
        /\ after[Len(after)].id = Str(Digits(MaxId(before) + 1))

\* C25: a task leaves the collection, and the file, only on y pressed right
\* after d; any other key after d cancels the pending deletion.
C25_OnlyDThenY ==
    [][/\ (Len(tui'.tasks) < Len(tui.tasks) \/ Len(DATA_FILE'.bytes) < Len(DATA_FILE.bytes))
            => hist.lastKey = "d"
       /\ (hist'.lastKey = "other" /\ tui.raised = "none") => ~tui'.pending_delete.set]_vars

\* C28: focus_col is one of the columns 0..14, and the selection index of
\* the focused column is an index into its task list when the list is not
\* empty; toggle-done never indexes past the end.
C28_SelectionValid ==
    /\ tui.focus_col \in 0..LastCol
    /\ FocusTasks # <<>> => SelGet(tui.selection, tui.focus_col) < Len(FocusTasks)
    /\ tui.raised # "IndexError"

\* C29: the task that confirm removes is the task that was selected when
\* d was pressed, and no other task is removed.
C29_RemovesSelected ==
    [][Len(tui'.tasks) < Len(tui.tasks) =>
            IdsOf(tui.tasks) \ IdsOf(tui'.tasks) = {hist.pendingId}]_vars

====
